---- MODULE Spec2Model ----
(***************************************************************************)
(* A model of src/src/lib.rs: the trait ValueDrop and the wrapper          *)
(* AutoValueDrop<T>(ManuallyDrop<T>).                                      *)
(*                                                                         *)
(* The inner type T is the kind of type the crate's tests use: a struct    *)
(* with one integer field x (DropTest { x: usize }).  A value of T is a    *)
(* record [id, x]: x is the field, id is the identity of the logical value *)
(* (1, 2, ...), which no Rust code can see and which only the properties   *)
(* read.  id = 0 marks bytes that came out of core::mem::uninitialized():  *)
(* they are no logical value, and their x is any value at all.  That is so *)
(* for a T of which every bit pattern is a value, as DropTest is.  A T     *)
(* with a validity invariant (a Box or a reference inside) is the other    *)
(* case (niche): there the call of uninitialized does not return, it       *)
(* aborts the process (a panic that does not unwind).  On a build without  *)
(* that check the call returns bytes, as in the first case.                *)
(*                                                                         *)
(* into_inner and Drop::drop are modelled one source line per step, each   *)
(* wrapper with a frame of its own (frame[w]: the line reached and the     *)
(* local val).  Line 91 of Drop::drop hands control to the user's          *)
(* ValueDrop::drop: while a frame is there, the finalizer's code makes     *)
(* calls on other wrappers, a nested Drop::drop among them, and as the     *)
(* wrapper is Send and Sync (lines 110-111) the finalizers of several      *)
(* threads are in flight together.  So any call can start while frames are *)
(* at line 91.  The calls on one wrapper exclude one another, as the       *)
(* borrow rules have it (into_inner and Drop::drop own the wrapper).       *)
(* The finalizer owns the value it was given: its body moves it elsewhere  *)
(* or not, and at its end drops it (T's own drop glue runs) or has         *)
(* forgotten it, and it returns or panics.  User code panics too.  A panic *)
(* unwinds (the hooks of the wrappers in scope run, other destructors and  *)
(* other threads go on), and is caught or aborts the process.  The         *)
(* model has no call stack and one mode for all threads: in which frame a  *)
(* panic started, and whose wrappers it drops, is left open, so that the   *)
(* behaviours of the model include those of every nesting and schedule.    *)
(***************************************************************************)
EXTENDS Integers, FiniteSets

\* Bounds of the model.
MaxWrappers == 2
MaxIds == 2
MaxVal == 1
MaxCalls == 2

Wrappers == 1..MaxWrappers
Ids == 1..MaxIds
Vals == 0..MaxVal

VARIABLES
    niche,       \* T has a validity invariant: not every bit pattern is a T
    wst,         \* wst[w]: "unused", "owned" (a binding that exists), "forgotten"
                 \* (passed to mem::forget), "released" (Drop::drop is over)
    slot,        \* slot[w]: the field self.0, a ManuallyDrop<T>
    frame,       \* frame[w]: the call of into_inner or Drop::drop in flight on w:
                 \* [pc, val]; pc is the line reached, val is the local `val`
    last,        \* the step made last: [op, w], the call and the wrapper it is on
    loose,       \* the values of T that user code owns outside any wrapper
    manualKept,  \* the values a finalizer called directly by user code moved elsewhere
    direct,      \* the values that are the self of a ValueDrop::drop that user code
                 \* called directly and whose body is running
    fin,         \* fin[w]: what the hook of w did: [runs, calls, id, x, self, outcome]
    finCount,    \* finCount[i]: the calls of ValueDrop::drop that received value i
    coreDrops,   \* coreDrops[i]: the runs of T's own drop glue on value i, which is
                 \* T's core::ops::Drop when T implements it
    expect,      \* expect[w]: the value given to new, with the writes made since
    returned,    \* returned[w]: what into_inner(w) returned, NoCell before that
    mode,        \* "running", "unwinding" (a panic is propagating), "aborted"
    nextId       \* the next unused identity

vars == <<niche, wst, slot, frame, last, loose, manualKept, direct, fin, finCount, coreDrops,
          expect, returned, mode, nextId>>

\* No value at all (an unused variable of the model).
NoCell == [id |-> -1, x |-> 0]

\* A value of T with identity i and field x = v.
Cell(i, v) == [id |-> i, x |-> v]

\* ManuallyDrop::new: the value in a cell that has no drop glue.
ManuallyDrop_new(val) == [value |-> val]

\* ManuallyDrop::into_inner: the value out of the cell.
ManuallyDrop_into_inner(md) == md.value

\* core::mem::uninitialized::<ManuallyDrop<T>>(): the values the call can return.
\* Any bytes at all; for a T with a validity invariant none: the call aborts the
\* process instead of returning.
uninitialized == IF niche THEN {} ELSE {ManuallyDrop_new(Cell(0, g)) : g \in Vals}

\* swap written as a bitwise read: b gets a's value and a keeps it.
swap_copy(a, b) == <<a, a>>

\* core::mem::swap(&mut a, &mut b): the pair <<a, b>> after the call.
swap(a, b) == <<b, a>>

\* AutoValueDrop::new
new(val) == ManuallyDrop_new(val)

\* The storage of a wrapper, or of a local, that does not exist.
Gone == ManuallyDrop_new(NoCell)

\* No call of into_inner or Drop::drop is in flight on the wrapper.
NoFrame == [pc |-> "idle", val |-> Gone]

NoFin == [runs |-> 0, calls |-> 0, id |-> -1, x |-> 0, self |-> "none", outcome |-> "none"]

Init ==
    /\ niche \in BOOLEAN
    /\ manualKept = {}
    /\ direct = {}
    /\ wst = [w \in Wrappers |-> "unused"]
    /\ slot = [w \in Wrappers |-> Gone]
    /\ frame = [w \in Wrappers |-> NoFrame]
    /\ last = [op |-> "none", w |-> 0]
    /\ loose = {}
    /\ fin = [w \in Wrappers |-> NoFin]
    /\ finCount = [i \in 0..MaxIds |-> 0]
    /\ coreDrops = [i \in 0..MaxIds |-> 0]
    /\ expect = [w \in Wrappers |-> NoCell]
    /\ returned = [w \in Wrappers |-> NoCell]
    /\ mode = "running"
    /\ nextId = 1

\* No frame is between two lines of the library's own code.  Lines 78-82 and 89-90
\* call no user code and touch only the wrapper they own and the local val, so the
\* step of another frame between two of them commutes with them: they run with no
\* other step in between.  A frame at line 91 is inside user code, and there any
\* other call can start.
Quiet == \A w \in Wrappers : frame[w].pc \in {"idle", "d91"}

\* User code runs: the caller's, another thread's, a finalizer's (a frame at line
\* 91), or while a panic unwinds that of the destructors on the way.
CallerRuns == Quiet /\ mode \in {"running", "unwinding"}

\* User code can use the wrapper w: the binding exists and no call that took it
\* by value or by &mut (into_inner, Drop::drop) is in flight on it.
Usable(w) == wst[w] = "owned" /\ frame[w].pc = "idle"

\* The binding the next wrapper gets.
FreeW == CHOOSE w \in Wrappers : wst[w] = "unused" /\ \A u \in Wrappers : wst[u] = "unused" => w <= u

HasFreeW == \E w \in Wrappers : wst[w] = "unused"

\* let w = AutoValueDrop::new(val)
Wrap(w, val) ==
    /\ slot' = [slot EXCEPT ![w] = new(val)]
    /\ wst' = [wst EXCEPT ![w] = "owned"]
    /\ expect' = [expect EXCEPT ![w] = val]
    /\ last' = [op |-> "new", w |-> w]

\* AutoValueDrop::new(DropTest { x: v }) on a value made for the purpose.
NewFresh(v) ==
    /\ CallerRuns /\ HasFreeW /\ nextId <= MaxIds
    /\ Wrap(FreeW, Cell(nextId, v))
    /\ nextId' = nextId + 1
    /\ UNCHANGED <<niche, direct, manualKept, frame, loose, fin, finCount, coreDrops, returned, mode>>

\* AutoValueDrop::new(c) on a value that user code holds: one that into_inner
\* returned, or one that a finalizer kept.
Rewrap(c) ==
    /\ CallerRuns /\ HasFreeW /\ c \in loose
    /\ Wrap(FreeW, c)
    /\ loose' = loose \ {c}
    /\ UNCHANGED <<niche, direct, manualKept, frame, fin, finCount, coreDrops, returned, mode, nextId>>

\* deref that moves the value out and leaves uninitialized bytes behind.
Deref_moves(w) ==
    /\ CallerRuns /\ Usable(w)
    /\ last' = [op |-> "deref", w |-> w]
    /\ \E u \in uninitialized : slot' = [slot EXCEPT ![w] = u]
    /\ loose' = loose \cup {slot[w].value}
    /\ UNCHANGED <<niche, direct, manualKept, wst, frame, fin, finCount, coreDrops, expect, returned,
                   mode, nextId>>

\* Deref::deref: &self.0, and the caller reads the value behind it.
Deref(w) ==
    /\ CallerRuns /\ Usable(w)
    /\ last' = [op |-> "deref", w |-> w]
    /\ UNCHANGED <<niche, direct, manualKept, wst, slot, frame, loose, fin, finCount, coreDrops, expect,
                   returned, mode, nextId>>

\* DerefMut::deref_mut: &mut self.0, and the caller writes x = v through it.
DerefMut(w, v) ==
    /\ CallerRuns /\ Usable(w)
    /\ slot' = [slot EXCEPT ![w].value.x = v]
    /\ expect' = [expect EXCEPT ![w].x = v]
    /\ last' = [op |-> "deref_mut", w |-> w]
    /\ UNCHANGED <<niche, direct, manualKept, wst, frame, loose, fin, finCount, coreDrops, returned,
                   mode, nextId>>

\* The values user code can make or has at hand: a new value of T, or one it holds.
Fresh == IF nextId <= MaxIds THEN {Cell(nextId, v) : v \in Vals} ELSE {}

\* *w = c through deref_mut: the assignment drops the old value in place (T's own
\* drop glue, no ValueDrop::drop) and moves c into the wrapper.
DerefMut_assign(w, c) ==
    /\ CallerRuns /\ Usable(w)
    /\ c \in loose \cup Fresh
    /\ slot' = [slot EXCEPT ![w].value = c]
    /\ expect' = [expect EXCEPT ![w] = c]
    /\ coreDrops' = [coreDrops EXCEPT ![slot[w].value.id] = @ + 1]
    /\ loose' = loose \ {c}
    /\ nextId' = IF c \in Fresh THEN nextId + 1 ELSE nextId
    /\ last' = [op |-> "assign", w |-> w]
    /\ UNCHANGED <<niche, direct, manualKept, wst, frame, fin, finCount, returned, mode>>

\* core::mem::replace(&mut *w, c) through deref_mut: c moves into the wrapper and
\* the caller holds the old value, outside any wrapper.
DerefMut_replace(w, c) ==
    /\ CallerRuns /\ Usable(w)
    /\ c \in loose \cup Fresh
    /\ slot' = [slot EXCEPT ![w].value = c]
    /\ expect' = [expect EXCEPT ![w] = c]
    /\ loose' = (loose \ {c}) \cup {slot[w].value}
    /\ nextId' = IF c \in Fresh THEN nextId + 1 ELSE nextId
    /\ last' = [op |-> "replace", w |-> w]
    /\ UNCHANGED <<niche, direct, manualKept, wst, frame, fin, finCount, coreDrops, returned, mode>>

\* core::mem::swap(&mut *w, &mut *u) through two deref_mut references: the two
\* wrappers exchange their values; nothing is dropped and nothing leaves a wrapper.
DerefMut_swap(w, u) ==
    /\ CallerRuns /\ Usable(w) /\ Usable(u) /\ w # u
    /\ LET r == swap(slot[w], slot[u])
       IN slot' = [slot EXCEPT ![w] = r[1], ![u] = r[2]]
    /\ expect' = [expect EXCEPT ![w] = expect[u], ![u] = expect[w]]
    /\ last' = [op |-> "swap", w |-> w]
    /\ UNCHANGED <<niche, direct, manualKept, wst, frame, loose, fin, finCount, coreDrops,
                   returned, mode, nextId>>

\* T::clone (derive(Clone) on DropTest): a new value with the same field.
T_clone(c, i) == Cell(i, c.x)

\* derive(Clone) on AutoValueDrop: a new wrapper around a clone of the inner value.
Clone(w) ==
    /\ CallerRuns /\ Usable(w) /\ HasFreeW /\ nextId <= MaxIds
    /\ LET c == T_clone(slot[w].value, nextId)
       IN /\ slot' = [slot EXCEPT ![FreeW] = ManuallyDrop_new(c)]
          /\ wst' = [wst EXCEPT ![FreeW] = "owned"]
          /\ expect' = [expect EXCEPT ![FreeW] = Cell(nextId, expect[w].x)]
          /\ last' = [op |-> "clone", w |-> w]
    /\ nextId' = nextId + 1
    /\ UNCHANGED <<niche, direct, manualKept, frame, loose, fin, finCount, coreDrops, returned, mode>>

\* into_inner, line 78: let mut val = unsafe { uninitialized() };
IntoInner_uninit(w) ==
    /\ CallerRuns /\ Usable(w)
    /\ IF uninitialized = {}
       THEN frame' = [frame EXCEPT ![w].pc = "abort78"] /\ mode' = "aborted"
       ELSE /\ \E u \in uninitialized :
                  frame' = [frame EXCEPT ![w] = [pc |-> "ii78", val |-> u]]
            /\ mode' = mode
    /\ last' = [op |-> "into_inner", w |-> w]
    /\ UNCHANGED <<niche, direct, manualKept, wst, slot, loose, fin, finCount, coreDrops, expect,
                   returned, nextId>>

\* into_inner, line 79: swap(&mut slot.0, &mut val);
IntoInner_swap(w) ==
    /\ frame[w].pc = "ii78" /\ mode # "aborted"
    /\ LET r == swap(slot[w], frame[w].val)
       IN /\ slot' = [slot EXCEPT ![w] = r[1]]
          /\ frame' = [frame EXCEPT ![w] = [pc |-> "ii79", val |-> r[2]]]
    /\ last' = [op |-> "into_inner", w |-> w]
    /\ UNCHANGED <<niche, direct, manualKept, wst, loose, fin, finCount, coreDrops, expect, returned,
                   mode, nextId>>

\* into_inner without its forget: the wrapper stays a binding in scope.
forget_skipped(w) == [wst |-> wst, slot |-> slot]

\* core::mem::forget(slot): the wrapper is moved into forget, which never runs its
\* destructor; the binding and its storage are gone.
forget(w) == [wst |-> [wst EXCEPT ![w] = "forgotten"], slot |-> [slot EXCEPT ![w] = Gone]]

\* into_inner, line 81: forget(slot);
IntoInner_forget(w) ==
    /\ frame[w].pc = "ii79" /\ mode # "aborted"
    /\ wst' = forget(w).wst
    /\ slot' = forget(w).slot
    /\ frame' = [frame EXCEPT ![w].pc = "ii81"]
    /\ last' = [op |-> "into_inner", w |-> w]
    /\ UNCHANGED <<niche, direct, manualKept, loose, fin, finCount, coreDrops, expect, returned, mode,
                   nextId>>

\* into_inner, line 82: ManuallyDrop::into_inner(val), returned to the caller.
IntoInner_return(w) ==
    /\ frame[w].pc = "ii81" /\ mode # "aborted"
    /\ LET v == ManuallyDrop_into_inner(frame[w].val)
       IN /\ loose' = loose \cup {v}
          /\ returned' = [returned EXCEPT ![w] = v]
    /\ frame' = [frame EXCEPT ![w] = NoFrame]
    /\ last' = [op |-> "into_inner", w |-> w]
    /\ UNCHANGED <<niche, direct, manualKept, wst, slot, fin, finCount, coreDrops, expect, mode, nextId>>

\* The binding w goes out of scope (at a scope end, by drop(w), or as a panic
\* unwinds): Drop::drop(&mut w) starts.  Line 89: let mut val = uninitialized();
Drop_uninit(w) ==
    /\ mode \in {"running", "unwinding"} /\ Quiet
    /\ Usable(w)
    /\ IF uninitialized = {}
       THEN frame' = [frame EXCEPT ![w].pc = "abort89"] /\ mode' = "aborted"
       ELSE /\ \E u \in uninitialized :
                  frame' = [frame EXCEPT ![w] = [pc |-> "d89", val |-> u]]
            /\ mode' = mode
    /\ last' = [op |-> "drop", w |-> w]
    /\ fin' = [fin EXCEPT ![w].runs = @ + 1]
    /\ UNCHANGED <<niche, direct, manualKept, wst, slot, loose, finCount, coreDrops, expect, returned,
                   nextId>>

\* Drop::drop, line 90: swap(&mut self.0, &mut val);
Drop_swap(w) ==
    /\ frame[w].pc = "d89" /\ mode # "aborted"
    /\ LET r == swap(slot[w], frame[w].val)
       IN /\ slot' = [slot EXCEPT ![w] = r[1]]
          /\ frame' = [frame EXCEPT ![w] = [pc |-> "d90", val |-> r[2]]]
    /\ last' = [op |-> "drop", w |-> w]
    /\ UNCHANGED <<niche, direct, manualKept, wst, loose, fin, finCount, coreDrops, expect, returned,
                   mode, nextId>>

\* Drop::drop, line 91, the call: ManuallyDrop::into_inner(val).drop() enters the
\* user's ValueDrop::drop, which now owns the value (it stays in the frame as the
\* callee's self).  The body runs from here to Drop_return.
Drop_call(w) ==
    /\ frame[w].pc = "d90" /\ mode # "aborted"
    /\ LET v == ManuallyDrop_into_inner(frame[w].val)
       IN /\ finCount' = [finCount EXCEPT ![v.id] = @ + 1]
          /\ fin' = [fin EXCEPT ![w].calls = @ + 1, ![w].id = v.id, ![w].x = v.x]
    /\ frame' = [frame EXCEPT ![w].pc = "d91"]
    /\ last' = [op |-> "drop", w |-> w]
    /\ UNCHANGED <<niche, direct, manualKept, wst, slot, loose, coreDrops, expect, returned, mode, nextId>>

\* The body of ValueDrop::drop moves its self elsewhere: into a static, into a
\* field, into a new wrapper.  User code holds the value from here on.
Finalizer_keeps(w) ==
    /\ frame[w].pc = "d91" /\ mode # "aborted" /\ Quiet
    /\ fin[w].self = "none"
    /\ loose' = loose \cup {ManuallyDrop_into_inner(frame[w].val)}
    /\ frame' = [frame EXCEPT ![w].val = Gone]
    /\ fin' = [fin EXCEPT ![w].self = "kept"]
    /\ last' = [op |-> "drop", w |-> w]
    /\ UNCHANGED <<niche, direct, manualKept, wst, slot, finCount, coreDrops, expect, returned, mode,
                   nextId>>

\* What has become of the self of a finalizer when its body is over: moved
\* elsewhere before, or else dropped there or passed to mem::forget.
Disposals(w) == IF fin[w].self = "kept" THEN {"kept"} ELSE {"dropped", "forgotten"}

\* A finalizer whose argument is never dropped (as if it were a reference).
AfterValueDrop_forgotten(v, how) == coreDrops

\* ValueDrop::drop(self) takes v by value: T's own drop glue runs on self as the
\* body ends or unwinds, unless the body forgot self or moved it elsewhere.
AfterValueDrop(v, how) ==
    IF how = "dropped" THEN [coreDrops EXCEPT ![v.id] = @ + 1] ELSE coreDrops

\* A panic leaves a finalizer: it starts unwinding; while a panic is already
\* propagating it is that panic passing through this frame, or a second panic in
\* a destructor that the unwinding ran, which aborts the process.
Panic == IF mode = "running" THEN {"unwinding"} ELSE {"unwinding", "aborted"}

\* Drop::drop that puts the value back when ValueDrop::drop panics, so that the
\* wrapper is live again and is dropped again.
Drop_return_retry(w) ==
    /\ frame[w].pc = "d91" /\ mode # "aborted" /\ Quiet
    /\ LET v == ManuallyDrop_into_inner(frame[w].val)
       IN \E outcome \in {"ok", "panic"}, how \in Disposals(w) :
            /\ fin' = [fin EXCEPT ![w].self = how, ![w].outcome = outcome]
            /\ coreDrops' = IF outcome = "panic" THEN coreDrops ELSE AfterValueDrop(v, how)
            /\ mode' \in (IF outcome = "panic" THEN Panic ELSE {mode})
            /\ wst' = IF outcome = "panic" THEN wst ELSE [wst EXCEPT ![w] = "released"]
            /\ slot' = [slot EXCEPT ![w] = IF outcome = "panic" THEN frame[w].val ELSE Gone]
    /\ frame' = [frame EXCEPT ![w] = NoFrame]
    /\ last' = [op |-> "drop", w |-> w]
    /\ UNCHANGED <<niche, direct, manualKept, loose, finCount, expect, returned, nextId>>

\* Drop::drop, line 91, the return: the user's ValueDrop::drop returns or panics;
\* either way its self is disposed of, Drop::drop is over without a look at the
\* outcome, the field self.0 (a ManuallyDrop) is not dropped, and the storage of
\* w is released.
Drop_return(w) ==
    /\ frame[w].pc = "d91" /\ mode # "aborted" /\ Quiet
    /\ LET v == ManuallyDrop_into_inner(frame[w].val)
       IN \E outcome \in {"ok", "panic"}, how \in Disposals(w) :
            /\ fin' = [fin EXCEPT ![w].self = how, ![w].outcome = outcome]
            /\ coreDrops' = AfterValueDrop(v, how)
            /\ mode' \in (IF outcome = "panic" THEN Panic ELSE {mode})
    /\ wst' = [wst EXCEPT ![w] = "released"]
    /\ slot' = [slot EXCEPT ![w] = Gone]
    /\ frame' = [frame EXCEPT ![w] = NoFrame]
    /\ last' = [op |-> "drop", w |-> w]
    /\ UNCHANGED <<niche, direct, manualKept, loose, finCount, expect, returned, nextId>>

\* ValueDrop::drop(c) called by user code on a value it holds, as the doc of
\* into_inner tells it to: the finalizer is entered with c as its self, no wrapper
\* involved.  The body runs from here to ValueDrop_return; it is user code, so
\* any call can start while it runs.
ValueDrop_drop(c) ==
    /\ CallerRuns /\ c \in loose /\ finCount[c.id] < MaxCalls
    /\ finCount' = [finCount EXCEPT ![c.id] = @ + 1]
    /\ loose' = loose \ {c}
    /\ direct' = direct \cup {c}
    /\ last' = [op |-> "value_drop", w |-> 0]
    /\ UNCHANGED <<niche, manualKept, wst, slot, frame, fin, coreDrops, expect, returned,
                   mode, nextId>>

\* The body of a directly called ValueDrop::drop moves its self elsewhere: user
\* code holds the value from here on, and the rest of the body is user code like
\* any other.
ValueDrop_keeps(c) ==
    /\ CallerRuns /\ c \in direct
    /\ direct' = direct \ {c}
    /\ loose' = loose \cup {c}
    /\ manualKept' = manualKept \cup {c.id}
    /\ last' = [op |-> "value_drop", w |-> 0]
    /\ UNCHANGED <<niche, wst, slot, frame, fin, finCount, coreDrops, expect, returned,
                   mode, nextId>>

\* The body of a directly called ValueDrop::drop returns or panics: its self is
\* dropped there (T's own drop glue runs) or was passed to mem::forget.
ValueDrop_return(c) ==
    /\ CallerRuns /\ c \in direct
    /\ direct' = direct \ {c}
    /\ \E outcome \in {"ok", "panic"}, how \in {"dropped", "forgotten"} :
          /\ coreDrops' = AfterValueDrop(c, how)
          /\ mode' \in (IF outcome = "panic" THEN Panic ELSE {mode})
    /\ last' = [op |-> "value_drop", w |-> 0]
    /\ UNCHANGED <<niche, manualKept, wst, slot, frame, loose, fin, finCount, expect,
                   returned, nextId>>

\* A value that user code holds outside any wrapper goes out of scope: T's own
\* drop glue runs on it, ValueDrop::drop does not.
ScopeEnd(c) ==
    /\ CallerRuns /\ c \in loose
    /\ coreDrops' = [coreDrops EXCEPT ![c.id] = @ + 1]
    /\ loose' = loose \ {c}
    /\ last' = [op |-> "scope_end", w |-> 0]
    /\ UNCHANGED <<niche, direct, manualKept, wst, slot, frame, fin, finCount, expect, returned,
                   mode, nextId>>

\* User code outside any finalizer panics (a failed assert of a test).
CallerPanics ==
    /\ CallerRuns
    /\ mode' \in Panic
    /\ last' = [op |-> "panic", w |-> 0]
    /\ UNCHANGED <<niche, direct, manualKept, wst, slot, frame, loose, fin, finCount, coreDrops,
                   expect, returned, nextId>>

\* The panic is caught (the test harness catches the panic of a test; user code
\* may use std's catch_unwind) or the panicking thread ends: user code runs again.
Recover ==
    /\ mode = "unwinding" /\ Quiet
    /\ mode' = "running"
    /\ last' = [op |-> "recover", w |-> 0]
    /\ UNCHANGED <<niche, direct, manualKept, wst, slot, frame, loose, fin, finCount, coreDrops, expect,
                   returned, nextId>>

(***************************************************************************)
(* What the properties read off the state.                                 *)
(***************************************************************************)

\* The wrapper holds a value of T and is a binding that exists.
Live(w) == wst[w] = "owned" /\ slot[w].value.id \in Ids

\* The hook of w has called ValueDrop::drop.
Finalized(w) == fin[w].calls >= 1

\* into_inner(w) has returned the value of w to the caller.
Extracted(w) == returned[w] # NoCell

\* The places that hold value i: slots, the local val of the calls in flight
\* (at line 91 the finalizer's self), the self of the finalizers called directly,
\* and the values user code holds outside any wrapper.
Owners(i) ==
    Cardinality({w \in Wrappers : slot[w].value.id = i})
    + Cardinality({w \in Wrappers : frame[w].val.value.id = i})
    + Cardinality({c \in loose : c.id = i})
    + Cardinality({c \in direct : c.id = i})

\* f[0] + ... + f[n]
RECURSIVE SumTo(_, _)
SumTo(f, n) == IF n < 0 THEN 0 ELSE f[n] + SumTo(f, n - 1)

\* All the calls of ValueDrop::drop so far (the tests' DROP_COUNT).
DropCount == SumTo(finCount, MaxIds)

\* The next step may read slot[w] as a value of T: deref, deref_mut, clone and the
\* start of a call while user code can use w, and the swap of lines 79 and 90.
ReadsSlot(w) == (Usable(w) /\ mode # "aborted") \/ frame[w].pc \in {"ii78", "d89"}

\* Some finalizer that was given value i moved it elsewhere.
KeptByFinalizer(i) ==
    \/ \E w \in Wrappers : fin[w].id = i /\ fin[w].self = "kept"
    \/ i \in manualKept

\* The release of w at scope end has gone as far as Drop::drop takes it: the hook
\* is over, or it has aborted the process at line 89.
Ended(w) == wst[w] = "released" \/ frame[w].pc = "abort89"

\* The wrappers whose hook has made its finalize call.
HookCalls == {w \in Wrappers : fin[w].calls >= 1}

\* C1: a wrapper released at scope end without into_inner has had ValueDrop::drop
\* invoked exactly once for it (never zero times, never twice), on the value it
\* was given at new with every write made through the wrapper since; before line
\* 91 of its hook no call has been made for it.
C1_FinalizedExactlyOnce ==
    \A w \in Wrappers :
        /\ fin[w].calls <= 1
        /\ (wst[w] = "owned" /\ frame[w].pc \notin {"d91", "abort89"}) => fin[w].calls = 0
        /\ (Ended(w) \/ frame[w].pc = "d91") =>
              /\ fin[w].calls = 1
              /\ fin[w].id = expect[w].id
              /\ fin[w].x = expect[w].x

\* C2: for a wrapper consumed by into_inner, ValueDrop::drop is never invoked for
\* that wrapper, neither while into_inner runs nor afterwards, and the value
\* returned is the wrapper's contents just before the call (the value given to new
\* with the writes made since; into_inner(new(v)) = v when there were none).
C2_IntoInnerNoDrop ==
    \A w \in Wrappers :
        /\ Extracted(w) =>
              /\ fin[w].runs = 0 /\ fin[w].calls = 0
              /\ wst[w] = "forgotten" /\ frame[w].pc = "idle"
        /\ frame[w].pc \in {"ii78", "ii79", "ii81"} => fin[w].runs = 0 /\ fin[w].calls = 0
        /\ (Extracted(w) \/ frame[w].pc = "abort78") => returned[w] = expect[w]

\* C3 as claimed: no logical value has been finalized more than once.
C3_NoValueFinalizedTwice == \A i \in Ids : finCount[i] <= 1

\* C3, the states: every wrapper on which no call is in flight is in exactly one
\* of the states live, finalized, extracted; a wrapper makes at most one finalize
\* call; a value is finalized a second time, or held again after its
\* finalization, only when a finalizer that was given the value moved it
\* elsewhere.
C3_OneState ==
    /\ \A w \in Wrappers :
          /\ fin[w].calls <= 1
          /\ (wst[w] # "unused" /\ frame[w].pc = "idle") =>
                /\ Live(w) \/ Finalized(w) \/ Extracted(w)
                /\ ~(Live(w) /\ Finalized(w))
                /\ ~(Live(w) /\ Extracted(w))
                /\ ~(Finalized(w) /\ Extracted(w))
    /\ \A i \in Ids :
          /\ finCount[i] >= Cardinality({w \in Wrappers : fin[w].calls = 1 /\ fin[w].id = i})
          /\ finCount[i] >= 2 => KeptByFinalizer(i)
          /\ (/\ finCount[i] >= 1
              /\ \A w \in Wrappers : frame[w].val.value.id # i
              /\ \A c \in direct : c.id # i) =>
                (Owners(i) = 0 \/ KeptByFinalizer(i))

\* C3, the steps: finalized and extracted are terminal.
C3_Terminal ==
    \A w \in Wrappers :
        /\ Finalized(w) =>
              Finalized(w)' /\ ~Live(w)' /\ ~Extracted(w)' /\ fin'[w].calls = fin[w].calls
        /\ Extracted(w) => Extracted(w)' /\ ~Live(w)' /\ ~Finalized(w)'
        /\ wst[w] = "released" => wst'[w] = "released" /\ fin'[w] = fin[w]

\* C3 as amended: after any sequence of new, deref, deref_mut, clone, into_inner,
\* re-wrapping and scope-end drops, each wrapper is in exactly one of the states
\* live, finalized or extracted (or a call is in flight on it, and then user code
\* cannot reach it), the last two are terminal and exclude one another, and each
\* wrapper finalizes at most once; a logical value is finalized more than once
\* only when a finalizer moved the value it was given elsewhere and the value
\* was wrapped, or finalized by user code, again.
C3_Lifecycle == [](C3_OneState) /\ [][C3_Terminal]_vars

C3_Witness ==
    \E t, u \in Wrappers :
        /\ t # u /\ wst[t] = "released" /\ fin[t].self = "kept"
        /\ wst[u] = "released" /\ fin[u].id = fin[t].id /\ fin[u].self = "dropped"
        /\ finCount[fin[t].id] = 2 /\ coreDrops[fin[t].id] = 1

\* The wrapper made last.
Newest == CHOOSE d \in Wrappers : wst[d] # "unused" /\ \A u \in Wrappers : wst[u] # "unused" => u <= d

\* C4, the states: while a wrapper is live its contents are what was written
\* through that wrapper; right after x.clone() the new wrapper is live, not
\* finalized, and holds a value of its own with the source's contents; the
\* release of a copy makes one finalize call on that copy's contents, so that
\* the release of two wrappers (the two copies among them) makes exactly two.
C4_CloneState ==
    /\ \A w \in Wrappers : Live(w) => slot[w].value = expect[w]
    /\ last.op = "clone" =>
          LET s == last.w
              d == Newest
          IN /\ d # s /\ Live(d) /\ Live(s) /\ fin[d] = NoFin
             /\ slot[d].value.x = slot[s].value.x
             /\ slot[d].value.id # slot[s].value.id
             /\ Owners(slot[d].value.id) = 1 /\ Owners(slot[s].value.id) = 1
    /\ \A s \in Wrappers :
          Ended(s) => fin[s].calls = 1 /\ fin[s].id = expect[s].id /\ fin[s].x = expect[s].x
    /\ \A s, d \in Wrappers :
          (s # d /\ Ended(s) /\ Ended(d)) => fin[s].calls + fin[d].calls = 2

\* C4, the steps: a step changes the contents and the finalize record of no
\* wrapper but the one the call is on (the two of them when the caller swaps the
\* contents of two wrappers), and a clone changes nothing of its source.
C4_Frame ==
    /\ last'.op # "swap" =>
          \A u \in Wrappers :
              (wst[u] # "unused" /\ u # last'.w) => slot'[u] = slot[u] /\ fin'[u] = fin[u]
    /\ last'.op = "swap" =>
          /\ fin' = fin /\ finCount' = finCount
          /\ \E u \in Wrappers :
                /\ u # last'.w
                /\ slot'[u] = slot[last'.w] /\ slot'[last'.w] = slot[u]
                /\ \A t \in Wrappers : t \notin {u, last'.w} => slot'[t] = slot[t]
    /\ (last'.op = "clone" /\ nextId' # nextId) =>
          slot'[last'.w] = slot[last'.w] /\ fin' = fin /\ finCount' = finCount

\* C4: a clone is a new live, not yet finalized wrapper with an independent copy of
\* the contents; writing to or finalizing one copy changes neither the contents nor
\* the finalize count of the other, and releasing both makes exactly two finalize
\* calls, each on its own copy's current contents.
C4_CloneIndependent == [](C4_CloneState) /\ [][C4_Frame]_vars

\* C5: when several live wrappers are released, in any order, each makes its own
\* single finalize call: the number of finalize calls the hooks made is the
\* number of wrappers released (with those whose hook is inside its call), none
\* skipped and none repeated, and the tests' DROP_COUNT has counted them all.
C5_OneCallPerRelease ==
    /\ Cardinality(HookCalls)
          = Cardinality({w \in Wrappers : Ended(w) \/ frame[w].pc = "d91"})
    /\ DropCount >= Cardinality(HookCalls)
    /\ \A w \in Wrappers : fin[w].calls <= 1
    /\ \A w \in Wrappers : Ended(w) => fin[w].calls = 1 /\ fin[w].runs = 1

\* C6: deref and deref_mut have no lifecycle effect: neither invokes
\* ValueDrop::drop and the wrapper stays live; deref leaves every content
\* unchanged, and through deref_mut the contents change only by what the caller
\* writes: a field, or the whole value by assignment, replace or swap, of the
\* wrappers written to only.
C6_Transparent ==
    [][\A w \in Wrappers :
          /\ (last'.op = "deref" /\ last'.w = w) =>
                /\ wst' = wst /\ slot' = slot /\ fin' = fin /\ frame' = frame
                /\ finCount' = finCount /\ coreDrops' = coreDrops /\ loose' = loose
                /\ Live(w)'
          /\ (last'.op = "deref_mut" /\ last'.w = w) =>
                /\ wst' = wst /\ fin' = fin /\ frame' = frame
                /\ finCount' = finCount /\ coreDrops' = coreDrops /\ loose' = loose
                /\ Live(w)'
                /\ slot'[w].value.id = slot[w].value.id
                /\ \A u \in Wrappers : u # w => slot'[u] = slot[u]
          /\ (last'.op \in {"assign", "replace"} /\ last'.w = w) =>
                /\ wst' = wst /\ fin' = fin /\ frame' = frame /\ finCount' = finCount
                /\ Live(w)'
                /\ slot'[w].value = expect'[w]
                /\ \A u \in Wrappers : u # w => slot'[u] = slot[u]
          /\ (last'.op = "swap" /\ last'.w = w) =>
                /\ wst' = wst /\ fin' = fin /\ frame' = frame /\ finCount' = finCount
                /\ coreDrops' = coreDrops /\ loose' = loose
                /\ \E u \in Wrappers :
                      /\ u # w /\ Live(w)' /\ Live(u)'
                      /\ slot'[w] = slot[u] /\ slot'[u] = slot[w]
                      /\ \A t \in Wrappers : t \notin {u, w} => slot'[t] = slot[t]]_vars

C6_Witness ==
    /\ last.op = "deref_mut" /\ Live(last.w)
    /\ fin[last.w].calls = 0 /\ slot[last.w].value.x = MaxVal
    /\ \E u \in Wrappers : u # last.w /\ frame[u].pc = "d91" /\ fin[u].x = 0

\* C7 as claimed: once the value of a wrapper has been extracted, the hook of that
\* wrapper runs, finds the placeholder and makes no finalize call.
C7_HookFindsPlaceholder ==
    \A w \in Wrappers : Extracted(w) => fin[w].runs >= 1 /\ fin[w].calls = 0

\* C7 as amended: once the value of a wrapper has been extracted, the hook of that
\* wrapper never runs (into_inner forgets the wrapper); the hook makes no test of
\* what the slot holds: a run of it makes exactly one finalize call once it has
\* reached line 91, and none when the process aborts at line 89 (C1); every run
\* starts on a slot that holds a real value, and no finalize call is ever made
\* on a placeholder.
C7_HookNeverRunsOnPlaceholder ==
    /\ \A w \in Wrappers :
          /\ Extracted(w) => fin[w].runs = 0 /\ fin[w].calls = 0
          /\ fin[w].runs <= 1 /\ fin[w].calls <= fin[w].runs
          /\ (wst[w] = "released" \/ frame[w].pc = "d91") =>
                fin[w].runs = 1 /\ fin[w].calls = 1 /\ fin[w].id \in Ids
          /\ frame[w].pc \in {"d89", "d90", "abort89"} =>
                fin[w].runs = 1 /\ fin[w].calls = 0
          /\ frame[w].pc = "abort89" => slot[w].value.id \in Ids
          /\ frame[w].pc = "d89" => slot[w].value.id \in Ids
          /\ frame[w].pc = "d90" => frame[w].val.value.id \in Ids /\ slot[w].value.id = 0
    /\ finCount[0] = 0

C7_Witness ==
    \E w, u \in Wrappers :
        /\ Extracted(w) /\ fin[w].runs = 0
        /\ wst[u] = "released" /\ fin[u].id = returned[w].id

\* C8: at every step of into_inner and of the hook, a value has at most one owner,
\* the slot is not read as a value of T once the value has been moved out of it,
\* and no destruction runs on the placeholder: neither ValueDrop::drop nor T's own
\* drop glue.
C8_OneOwner ==
    /\ \A i \in Ids : Owners(i) <= 1
    /\ \A w \in Wrappers :
          /\ ReadsSlot(w) => slot[w].value.id \in Ids
          /\ frame[w].pc \in {"ii79", "d90"} =>
                slot[w].value.id = 0 /\ frame[w].val.value.id \in Ids
          /\ frame[w].pc = "ii81" => frame[w].val.value.id \in Ids /\ slot[w] = Gone
          /\ frame[w].pc = "d91" => slot[w].value.id = 0
    /\ finCount[0] = 0 /\ coreDrops[0] = 0

C8_Witness ==
    \E w \in Wrappers :
        /\ frame[w].pc = "ii79" /\ wst[w] = "owned"
        /\ slot[w].value.id = 0 /\ frame[w].val.value = expect[w]
        /\ slot[w].value.x # frame[w].val.value.x

\* C9 as claimed: releasing the wrapper at scope end runs both cleanups on the
\* value: ValueDrop::drop and T's own drop glue.
C9_BothCleanupsAlwaysRun ==
    \A w \in Wrappers :
        wst[w] = "released" => finCount[fin[w].id] >= 1 /\ coreDrops[fin[w].id] >= 1

\* C9 as amended: the wrapper neither prevents nor ensures T's own destructor.
\* The finalize call of a release (line 91) is made once, on the wrapper's value;
\* T's destructor runs, once, on the same value exactly when the finalizer's self
\* is dropped as its body ends or unwinds, and not when the finalizer forgot its
\* self; a self moved elsewhere is not dropped by this release.  A release that
\* aborts at line 89 (C1) runs neither cleanup.  No value is dropped twice.
C9_BothCleanupsRun ==
    /\ \A w \in Wrappers :
          wst[w] = "released" =>
              /\ fin[w].calls = 1 /\ fin[w].id = expect[w].id
              /\ finCount[fin[w].id] >= 1
              /\ fin[w].self \in {"dropped", "forgotten", "kept"}
              /\ fin[w].self = "dropped" => coreDrops[fin[w].id] = 1
              /\ (fin[w].self = "forgotten" /\ ~KeptByFinalizer(fin[w].id)) =>
                    coreDrops[fin[w].id] = 0
    /\ \A w \in Wrappers :
          frame[w].pc = "abort89" =>
              fin[w].calls = 0 /\ coreDrops[slot[w].value.id] = 0
    /\ \A i \in Ids : coreDrops[i] <= 1

C9_Witness ==
    \E w, u \in Wrappers :
        /\ wst[w] = "released" /\ fin[w].id \in Ids /\ fin[w].self = "dropped"
        /\ finCount[fin[w].id] = 1 /\ coreDrops[fin[w].id] = 1
        /\ wst[u] = "released" /\ fin[u].id \in Ids /\ fin[u].self = "forgotten"
        /\ finCount[fin[u].id] = 1 /\ coreDrops[fin[u].id] = 0

\* C10 as claimed: after ValueDrop::drop panicked while the wrapper was released,
\* no second finalize call is made on that value: its finalize count stays one.
C10_CountStaysOne ==
    \A w \in Wrappers : fin[w].outcome = "panic" => finCount[fin[w].id] = 1

\* C10 as amended: when ValueDrop::drop panics while the wrapper is released, the
\* wrapper is released all the same: its hook ran once and made one call, it is
\* not live again and makes no second call; the value is finalized again only
\* when a finalizer had moved it elsewhere and user code wrapped or finalized it
\* again.
C10_FireAndForget ==
    \A w \in Wrappers :
        fin[w].outcome = "panic" =>
            /\ wst[w] = "released" /\ ~Live(w) /\ frame[w].pc = "idle"
            /\ fin[w].runs = 1 /\ fin[w].calls = 1
            /\ ~KeptByFinalizer(fin[w].id) =>
                  finCount[fin[w].id] = 1 /\ Owners(fin[w].id) = 0
            /\ finCount[fin[w].id] >= 2 => KeptByFinalizer(fin[w].id)

C10_Witness ==
    \E w, u \in Wrappers :
        /\ u # w /\ fin[w].outcome = "panic" /\ finCount[fin[w].id] = 1
        /\ wst[u] = "released" /\ fin[u].outcome = "ok" /\ last.w = u
        /\ mode = "running"

Next ==
    \/ \E v \in Vals : NewFresh(v)
    \/ \E c \in loose : Rewrap(c)
    \/ \E w \in Wrappers : Deref(w)
    \/ \E w \in Wrappers, v \in Vals : DerefMut(w, v)
    \/ \E w \in Wrappers, c \in loose \cup Fresh : DerefMut_assign(w, c)
    \/ \E w \in Wrappers, c \in loose \cup Fresh : DerefMut_replace(w, c)
    \/ \E w, u \in Wrappers : DerefMut_swap(w, u)
    \/ \E w \in Wrappers : Clone(w)
    \/ \E w \in Wrappers : IntoInner_uninit(w)
    \/ \E w \in Wrappers : IntoInner_swap(w)
    \/ \E w \in Wrappers : IntoInner_forget(w)
    \/ \E w \in Wrappers : IntoInner_return(w)
    \/ \E w \in Wrappers : Drop_uninit(w)
    \/ \E w \in Wrappers : Drop_swap(w)
    \/ \E w \in Wrappers : Drop_call(w)
    \/ \E w \in Wrappers : Finalizer_keeps(w)
    \/ \E w \in Wrappers : Drop_return(w)
    \/ \E c \in loose : ValueDrop_drop(c)
    \/ \E c \in direct : ValueDrop_keeps(c)
    \/ \E c \in direct : ValueDrop_return(c)
    \/ \E c \in loose : ScopeEnd(c)
    \/ CallerPanics
    \/ Recover

Spec == Init /\ [][Next]_vars

====
